---- MODULE Spec2Model ----
(***************************************************************************)
(* Model of the LogParser tools of CC-NIE-Toolbox:                         *)
(*   generic/LogParser/cbr.py       per-product cumulative bytes ratio     *)
(*   generic/LogParser/ldm6_par.py  per-aggregate throughput               *)
(*                                                                         *)
(* A log line is the sequence of its whitespace-separated columns          *)
(* (line.split()); a column is the sequence of its characters.  Times are  *)
(* integers in microseconds (the resolution of datetime/timedelta); the    *)
(* float results of the metric functions are exact rationals <<n, d>>.     *)
(***************************************************************************)
EXTENDS Integers, Sequences, FiniteSets, TLC

VARIABLES
    prog,           \* which program runs: "cbr", "ldm6", or aggregate() alone
    pc,             \* position of the program
    err,            \* the exception that ended the run, "none" otherwise
    aggregate_size, \* aggregate(): threshold
    rows,           \* aggregate(): csv rows read so far
    group,          \* aggregate(): running group
    sum_size,       \* aggregate(): running sum
    groups,         \* aggregate(): closed groups
    sizes,          \* aggregate(): their sizes
    log,            \* extractLog(): lines read so far
    recs,           \* extractLog(): what the parsers returned for each line
    complete_set,   \* extractLog(): known identifiers
    complete_dict,  \* extractLog(): completed table
    rx_set,         \* cbr main(): sorted known identifiers
    k,              \* main(): rows written so far
    out             \* main(): rows written to the csv file

vars == <<prog, pc, err, aggregate_size, rows, group, sum_size, groups, sizes,
          log, recs, complete_set, complete_dict, rx_set, k, out>>

-----------------------------------------------------------------------------
(* Bounds of the model *)

MaxLines == 3
MaxRows == 2
MaxAggRows == 4
MaxThreshold == 3

-----------------------------------------------------------------------------
(* Characters and columns *)

Digits == {"0", "1", "2", "3", "4", "5", "6", "7", "8", "9"}

DigitVal(c) ==
    CASE c = "0" -> 0 [] c = "1" -> 1 [] c = "2" -> 2 [] c = "3" -> 3
      [] c = "4" -> 4 [] c = "5" -> 5 [] c = "6" -> 6 [] c = "7" -> 7
      [] c = "8" -> 8 [] c = "9" -> 9

\* str.isdigit(): non-empty and every character a digit
isdigit(t) == Len(t) > 0 /\ \A i \in 1..Len(t) : t[i] \in Digits

\* value of the digit string t[a..b]
RECURSIVE NatOf(_, _, _)
NatOf(t, a, b) ==
    IF b < a THEN 0 ELSE NatOf(t, a, b - 1) * 10 + DigitVal(t[b])

AllDigits(t, a, b) == a <= b /\ b <= Len(t) /\ \A i \in a..b : t[i] \in Digits

\* int(t) succeeds: optional sign, then digits
CanInt(t) ==
    /\ Len(t) > 0
    /\ IF t[1] \in {"-", "+"} THEN AllDigits(t, 2, Len(t))
                              ELSE AllDigits(t, 1, Len(t))

\* int(t)
int(t) ==
    IF t[1] = "-" THEN 0 - NatOf(t, 2, Len(t))
    ELSE IF t[1] = "+" THEN NatOf(t, 2, Len(t))
    ELSE NatOf(t, 1, Len(t))

\* marker m occurs in column t at position p
OccursAt(t, m, p) ==
    /\ p >= 1
    /\ p + Len(m) - 1 <= Len(t)
    /\ \A i \in 1..Len(m) : t[p + i - 1] = m[i]

\* re.search(r'.*m1.*m2', line): m1 occurs in the line and m2 occurs after
\* its end.  The markers hold no whitespace, so each lies within one column.
re_search(m1, m2, split_line) ==
    \E i \in 1..Len(split_line) :
        \E p \in 1..(Len(split_line[i]) - Len(m1) + 1) :
            /\ OccursAt(split_line[i], m1, p)
            /\ \E j \in i..Len(split_line) :
                   \E q \in 1..(Len(split_line[j]) - Len(m2) + 1) :
                       /\ (i < j \/ q >= p + Len(m1))
                       /\ OccursAt(split_line[j], m2, q)

mldm == <<"m", "l", "d", "m">>
Received == <<"R", "e", "c", "e", "i", "v", "e", "d">>
down7 == <<"d", "o", "w", "n", "7">>
Inserted == <<"I", "n", "s", "e", "r", "t", "e", "d">>

-----------------------------------------------------------------------------
(* Timestamps *)

\* days since 1970-01-01 of a civil date
DaysFromCivil(y, m, d) ==
    LET yy == IF m <= 2 THEN y - 1 ELSE y
        era == yy \div 400
        yoe == yy - era * 400
        mp == (m + 9) % 12
        doy == (153 * mp + 2) \div 5 + d - 1
        doe == yoe * 365 + yoe \div 4 - yoe \div 100 + doy
    IN  era * 146097 + doe - 719468

DaysInMonth(y, m) ==
    IF m = 2
    THEN IF (y % 4 = 0 /\ y % 100 # 0) \/ y % 400 = 0 THEN 29 ELSE 28
    ELSE IF m \in {4, 6, 9, 11} THEN 30 ELSE 31

\* the fraction digits t[a..b] (1 to 6 of them) in microseconds
RECURSIVE Pow10(_)
Pow10(n) == IF n = 0 THEN 1 ELSE 10 * Pow10(n - 1)
MicrosOf(t, a, b) == NatOf(t, a, b) * Pow10(6 - (b - a + 1))

\* the fields YYYYmmdd at t[1..8] and HHMMSS at t[h..h+5] form a valid time
ValidFields(t, h) ==
    /\ AllDigits(t, 1, 8)
    /\ AllDigits(t, h, h + 5)
    /\ NatOf(t, 1, 4) >= 1
    /\ NatOf(t, 5, 6) \in 1..12
    /\ NatOf(t, 7, 8) \in 1..DaysInMonth(NatOf(t, 1, 4), NatOf(t, 5, 6))
    /\ NatOf(t, h, h + 1) <= 23
    /\ NatOf(t, h + 2, h + 3) <= 59
    /\ NatOf(t, h + 4, h + 5) <= 59

\* a datetime: day number, second of the day, microsecond
DateTime(t, h, us) ==
    [day |-> DaysFromCivil(NatOf(t, 1, 4), NatOf(t, 5, 6), NatOf(t, 7, 8)),
     sec |-> NatOf(t, h, h + 1) * 3600 + NatOf(t, h + 2, h + 3) * 60
               + NatOf(t, h + 4, h + 5),
     us  |-> us]

\* datetime.strptime(t, "%Y%m%d%H%M%S.%f") succeeds (fixed-width fields)
CanStrptime(t) ==
    /\ Len(t) \in 16..21
    /\ ValidFields(t, 9)
    /\ t[15] = "."
    /\ AllDigits(t, 16, Len(t))

strptime(t) == DateTime(t, 9, MicrosOf(t, 16, Len(t)))

\* The arrival column is an ISO basic timestamp YYYYmmddTHHMMSS.ffffff
\* followed by its zone: Z, +HHMM or -HHMM.
ZoneStart(t) ==
    IF Len(t) >= 1 /\ t[Len(t)] = "Z" THEN Len(t)
    ELSE IF Len(t) >= 5 /\ t[Len(t) - 4] \in {"+", "-"} THEN Len(t) - 4
    ELSE Len(t) + 1

\* dateutil parse(t) succeeds
CanParse(t) ==
    LET z == ZoneStart(t) IN
    /\ z \in 17..23
    /\ ValidFields(t, 10)
    /\ t[9] = "T"
    /\ t[16] = "."
    /\ AllDigits(t, 17, z - 1)
    /\ (z + 1 <= Len(t) => AllDigits(t, z + 1, Len(t)))

\* the parsed datetime carries a zone; astimezone() raises ValueError on a
\* naive one
HasZone(t) == ZoneStart(t) <= Len(t)

\* utcoffset of the zone, in seconds
ZoneOffset(t) ==
    LET z == ZoneStart(t) IN
    IF t[z] = "Z" THEN 0
    ELSE LET o == NatOf(t, z + 1, z + 2) * 3600 + NatOf(t, z + 3, z + 4) * 60
         IN  IF t[z] = "-" THEN 0 - o ELSE o

\* parse(t).astimezone(pytz.utc).replace(tzinfo=None)
ArrivalUTC(t) ==
    LET z == ZoneStart(t)
        local == DateTime(t, 10, MicrosOf(t, 17, z - 1))
        s == local.sec - ZoneOffset(t)
    IN  [day |-> local.day + (IF s < 0 THEN -1 ELSE IF s >= 86400 THEN 1 ELSE 0),
         sec |-> (s + 86400) % 86400,
         us  |-> local.us]

\* (a - b) as a timedelta, in microseconds; total_seconds() is this / 10^6
Elapsed(a, b) ==
    ((a.day - b.day) * 86400 + (a.sec - b.sec)) * 1000000 + (a.us - b.us)

-----------------------------------------------------------------------------
(* Line parsers *)

Ok(id, size, rxtime) ==
    [tag |-> "ok", prodindex |-> id, size |-> size, rxtime |-> rxtime]
Raise(e) == [tag |-> "raise", exc |-> e]
NoMatch == Ok(-1, -1, -1)

\* column i of the split line, counted from 0 as the code does
Col(split_line, i) == split_line[i + 1]
Last(split_line) == split_line[Len(split_line)]

\* the statements after the match, common to the three parsers: product
\* index from the last column, size from column sc, arrival time from
\* column 0, insertion time from column tc
Fields(split_line, sc, tc) ==
    IF ~CanInt(Last(split_line)) THEN Raise("ValueError")
    ELSE IF Len(split_line) <= sc THEN Raise("IndexError")
    ELSE IF ~CanInt(Col(split_line, sc)) THEN Raise("ValueError")
    ELSE IF ~CanParse(Col(split_line, 0)) THEN Raise("ValueError")
    ELSE IF ~HasZone(Col(split_line, 0)) THEN Raise("ValueError")
    ELSE IF Len(split_line) <= tc THEN Raise("IndexError")
    ELSE IF ~CanStrptime(Col(split_line, tc)) THEN Raise("ValueError")
    ELSE Ok(int(Last(split_line)), int(Col(split_line, sc)),
            Elapsed(ArrivalUTC(Col(split_line, 0)),
                    strptime(Col(split_line, tc))))

\* cbr.py parseMLDM
parseMLDM(line) ==
    IF re_search(mldm, Received, line) THEN Fields(line, 6, 7) ELSE NoMatch

parseBackstop_col7(line) ==
    IF re_search(down7, Inserted, line) THEN Fields(line, 5, 7) ELSE NoMatch

\* cbr.py parseBackstop
parseBackstop(line) ==
    IF re_search(down7, Inserted, line) THEN Fields(line, 5, 6) ELSE NoMatch

\* ldm6_par.py parseMLDM
parseMLDM6(line) ==
    IF Len(line) <= 3 THEN Raise("IndexError")
    ELSE IF isdigit(Col(line, 3)) THEN Fields(line, 3, 4)
    ELSE NoMatch

-----------------------------------------------------------------------------
(* extractLog *)

EmptyDict == [x \in {} |-> <<0, 0>>]

has_key(dict, id) == id \in DOMAIN dict

Put(dict, id, v) ==
    [x \in DOMAIN dict \cup {id} |-> IF x = id THEN v ELSE dict[x]]

PutAlways(dict, id, v) == Put(dict, id, v)

PutIfPresent(dict, id, v) == IF has_key(dict, id) THEN Put(dict, id, v) ELSE dict

\* if not complete_dict.has_key(id): complete_dict[id] = v
PutIfAbsent(dict, id, v) == IF ~has_key(dict, id) THEN Put(dict, id, v) ELSE dict

\* the record extractLog takes from a line: cbr.py tries parseMLDM, then
\* parseBackstop; ldm6_par.py has parseMLDM alone.  A parser that raises
\* ends the run.
Taken(p, line) ==
    IF p = "cbr"
    THEN LET m == parseMLDM(line)
             b == parseBackstop(line)
         IN  IF m.tag = "raise" THEN m
             ELSE IF b.tag = "raise" THEN b
             ELSE IF m.prodindex >= 0 THEN m
             ELSE IF b.prodindex >= 0 THEN b
             ELSE NoMatch
    ELSE LET m == parseMLDM6(line)
         IN  IF m.tag = "raise" THEN m
             ELSE IF m.prodindex >= 0 THEN m
             ELSE NoMatch

RECURSIVE sorted(_)
sorted(S) ==
    IF S = {} THEN <<>>
    ELSE LET m == CHOOSE x \in S : \A y \in S : x <= y
         IN  <<m>> \o sorted(S \ {m})

-----------------------------------------------------------------------------
(* Rationals <<n, d>>, d > 0, in lowest terms *)

Abs(x) == IF x < 0 THEN 0 - x ELSE x

RECURSIVE GCD(_, _)
GCD(a, b) == IF b = 0 THEN a ELSE GCD(b, a % b)

Rat(n, d) ==
    LET g == GCD(Abs(n), Abs(d))
        s == IF d < 0 THEN -1 ELSE 1
    IN  <<s * (n \div g), s * (d \div g)>>

RMul(a, b) ==
    LET g1 == GCD(Abs(a[1]), b[2])
        g2 == GCD(Abs(b[1]), a[2])
    IN  <<(a[1] \div g1) * (b[1] \div g2), (a[2] \div g2) * (b[2] \div g1)>>

RInv(a) == IF a[1] < 0 THEN <<0 - a[2], 0 - a[1]>> ELSE <<a[2], a[1]>>

RDiv(a, b) == RMul(a, RInv(b))

RAdd(a, b) ==
    LET g == GCD(a[2], b[2])
        l == (a[2] \div g) * b[2]
    IN  Rat(a[1] * (l \div a[2]) + b[1] * (l \div b[2]), l)

RLess(a, b) == a[1] * b[2] < b[1] * a[2]

\* timedelta.total_seconds()
total_seconds(us) == Rat(us, 1000000)

-----------------------------------------------------------------------------
(* cbr.py: calcCBR *)

rtt == Rat(1, 1000)
vc_rate == 40000000

calcCBR_unguarded(index, dict) ==
    IF ~has_key(dict, index) THEN Raise("KeyError")
    ELSE
    LET ideal_time == RAdd(Rat(dict[index][1], vc_rate), RMul(Rat(1, 2), rtt))
        half_full_time == RAdd(ideal_time, Rat(60, 1))
        true_time == total_seconds(dict[index][2])
    IN  IF ideal_time[1] # 0 /\ true_time[1] # 0
        THEN [tag |-> "ok",
              cbr |-> RMul(RDiv(ideal_time, true_time), Rat(100, 1)),
              half_full_cbr |-> RMul(RDiv(ideal_time, half_full_time), Rat(100, 1))]
        ELSE [tag |-> "ok", cbr |-> Rat(-1, 1),
              half_full_cbr |-> RMul(RDiv(ideal_time, half_full_time), Rat(100, 1))]

calcCBR(index, dict) ==
    IF ~has_key(dict, index) THEN Raise("KeyError")
    ELSE
    LET ideal_time == RAdd(Rat(dict[index][1], vc_rate), RMul(Rat(1, 2), rtt))
        half_full_time == RAdd(ideal_time, Rat(60, 1))
        true_time == total_seconds(dict[index][2])
    IN  IF ideal_time[1] # 0 /\ true_time[1] # 0
        THEN [tag |-> "ok",
              cbr |-> RMul(RDiv(ideal_time, true_time), Rat(100, 1)),
              half_full_cbr |-> RMul(RDiv(ideal_time, half_full_time), Rat(100, 1))]
        ELSE [tag |-> "ok", cbr |-> Rat(-1, 1), half_full_cbr |-> Rat(-1, 1)]

-----------------------------------------------------------------------------
(* ldm6_par.py: aggregate and calcThroughput *)

CloseIfPositive(sum, threshold) == sum > 0

\* if sum_size >= aggregate_size
CloseGroup(sum, threshold) == sum >= threshold

KeepInverted(g, sum) == g = <<>> /\ sum # 0

\* if group and sum_size
KeepPartial(g, sum) == g # <<>> /\ sum # 0

Range(f) == {f[i] : i \in DOMAIN f}

RECURSIVE SumOver(_, _, _)
SumOver(S, dict, field) ==
    IF S = {} THEN 0
    ELSE LET x == CHOOSE y \in S : TRUE
         IN  dict[x][field] + SumOver(S \ {x}, dict, field)

MatchedAll(tx_group, set) == set

\* tx_group & complete_set
Matched(tx_group, set) == tx_group \cap set

ThruOrZero(complete_size, complete_time) ==
    IF complete_time # 0
    THEN RMul(RDiv(Rat(complete_size, 1), total_seconds(complete_time)), Rat(8, 1))
    ELSE Rat(0, 1)

\* thru = float(complete_size / complete_time) * 8 if complete_time else -1
Thru(complete_size, complete_time) ==
    IF complete_time # 0
    THEN RMul(RDiv(Rat(complete_size, 1), total_seconds(complete_time)), Rat(8, 1))
    ELSE Rat(-1, 1)

calcThroughput(tx_group, set, dict) ==
    LET ms == Matched(tx_group, set) IN
    IF ~(ms \subseteq DOMAIN dict) THEN Raise("KeyError")
    ELSE LET complete_size == SumOver(ms, dict, 1)
             complete_time == SumOver(ms, dict, 2)
         IN  [tag |-> "ok", thru |-> Thru(complete_size, complete_time),
              complete_size |-> complete_size]

Min(S) == CHOOSE x \in S : \A y \in S : x <= y
Max(S) == CHOOSE x \in S : \A y \in S : x >= y

-----------------------------------------------------------------------------
(* Inputs: the columns, lines and csv rows the files are drawn from *)

Day == <<"2", "0", "1", "5", "1", "1", "0", "1">>
F0 == <<"0", "0", "0", "0", "0", "0">>
F5 == <<"5", "0", "0", "0", "0", "0">>
H09 == <<"0", "0", "0", "0", "0", "9">>
H10 == <<"0", "0", "0", "0", "1", "0">>
H11 == <<"0", "0", "0", "0", "1", "1">>
H0110 == <<"0", "1", "0", "0", "1", "0">>

\* arrival 00:00:10 UTC, written in UTC and in a zone one hour ahead
Arr10 == Day \o <<"T">> \o H10 \o <<".">> \o F0 \o <<"Z">>
Arr10East == Day \o <<"T">> \o H0110 \o <<".">> \o F0 \o <<"+", "0", "1", "0", "0">>
\* insertion 00:00:09, 00:00:09.5, 00:00:10 and 00:00:11
Ins09 == Day \o H09 \o <<".">> \o F0
Ins095 == Day \o H09 \o <<".">> \o F5
Ins10 == Day \o H10 \o <<".">> \o F0
Ins11 == Day \o H11 \o <<".">> \o F0

N0 == <<"0">>
N1 == <<"1">>
N2 == <<"2">>
N5 == <<"5">>
Neg2 == <<"-", "2">>
S30 == <<"3", "0">>
S50 == <<"5", "0">>
S70 == <<"7", "0">>
S100 == <<"1", "0", "0">>
S200 == <<"2", "0", "0">>
S380000 == <<"3", "8", "0", "0", "0", "0">>
S4000000 == <<"4", "0", "0", "0", "0", "0", "0">>
SNeg20000 == <<"-", "2", "0", "0", "0", "0">>
Mi100 == <<"1", "0", "4", "8", "5", "7", "6", "0", "0">>
Mi200 == <<"2", "0", "9", "7", "1", "5", "2", "0", "0">>
Host == <<"h">>
Note == <<"N", "O", "T", "E">>
File == <<"f", ".", "c">>
Word == <<"a", "b", "c">>

\* an MLDM line: size in column 6, insertion time in column 7
LineA(arr, size, ins, idx) ==
    <<arr, Host, mldm, Note, File, Received, size, ins, idx>>
\* a backstop line: size in column 5, insertion time in column 6
LineB(arr, size, ins, idx) ==
    <<arr, Host, down7, Note, Inserted, size, ins, idx>>
\* a line of the log ldm6_par.py reads: size in column 3, time in column 4
Line6(arr, size, ins, idx) == <<arr, Host, Word, size, ins, idx>>

\* The lines a log file of cbr.py is drawn from.  The variable log holds
\* the names of the lines read; Text gives the columns of a line.
LinePool ==
    { "mldm_p0_1s", "mldm_p0_0s", "mldm_p1_0s", "mldm_p2_neg1s",
      "mldm_p2_negsize", "mldm_negindex", "down7_p0_half", "down7_p2_0s",
      "empty", "words", "both_markers", "mldm_badsize" }

\* The lines a log file of ldm6_par.py is drawn from.
LinePool6 ==
    { "six_p0_half", "six_p0_1s", "six_p1_0s", "six_p5_1s", "six_words",
      "empty" }

Text(name) ==
    CASE name = "mldm_p0_1s" -> LineA(Arr10, S380000, Ins09, N0)
      [] name = "mldm_p0_0s" -> LineA(Arr10, S100, Ins10, N0)
      [] name = "mldm_p1_0s" -> LineA(Arr10, S4000000, Ins10, N1)
      [] name = "mldm_p2_neg1s" -> LineA(Arr10East, S380000, Ins11, N2)
      [] name = "mldm_p2_negsize" -> LineA(Arr10, SNeg20000, Ins09, N2)
      [] name = "mldm_negindex" -> LineA(Arr10, S100, Ins09, Neg2)
      [] name = "down7_p0_half" -> LineB(Arr10, S200, Ins095, N0)
      \* a backstop line with a second time column
      [] name = "down7_p2_0s" ->
            <<Arr10, Host, down7, Note, Inserted, N0, Ins10, Ins09, N2>>
      [] name = "empty" -> <<>>
      [] name = "words" -> <<Word, Word>>
      \* an MLDM line that carries the backstop markers too
      [] name = "both_markers" ->
            <<Arr10, down7, mldm, Note, Inserted, Received, S100, Ins09, N1>>
      \* MLDM markers, but the size column is not a number
      [] name = "mldm_badsize" ->
            <<Arr10, Host, mldm, Note, File, Received, Word, Ins09, N1>>
      [] name = "six_p0_half" -> Line6(Arr10, S100, Ins095, N0)
      [] name = "six_p0_1s" -> Line6(Arr10, S70, Ins09, N0)
      [] name = "six_p1_0s" -> Line6(Arr10, S50, Ins10, N1)
      [] name = "six_p5_1s" -> Line6(Arr10, S30, Ins09, N5)
      \* column 3 is not a number
      [] name = "six_words" -> <<Arr10, Host, Word, Word, Ins09, N1>>

\* csv rows of the metadata file: the size is the first field
RowPool == { <<N0>>, <<Mi100>>, <<Mi200>> }
AggRowPool == { <<<<"-", "1">>>>, <<N0>>, <<N1>>, <<N2>> }

-----------------------------------------------------------------------------
(* The programs *)

InitCommon ==
    /\ err = "none"
    /\ rows = <<>>
    /\ group = <<>>
    /\ sum_size = 0
    /\ groups = <<>>
    /\ sizes = <<>>
    /\ log = <<>>
    /\ recs = <<>>
    /\ complete_set = {}
    /\ complete_dict = EmptyDict
    /\ rx_set = <<>>
    /\ k = 0
    /\ out = <<>>

\* cbr.py main, or ldm6_par.py main with its aggregate size of 200 MiB
Init ==
    /\ prog \in {"cbr", "ldm6"}
    /\ pc = IF prog = "cbr" THEN "extract" ELSE "aggregate"
    /\ aggregate_size = 200 * 1024 * 1024
    /\ InitCommon

\* aggregate() on its own, with any positive threshold
InitAggregate ==
    /\ prog = "aggregate"
    /\ pc = "aggregate"
    /\ aggregate_size \in 1..MaxThreshold
    /\ InitCommon

ExtractVars == <<log, recs, complete_set, complete_dict, rx_set>>
AggVars == <<aggregate_size, rows, group, sum_size, groups, sizes>>

\* aggregate(): one iteration of the loop over the csv rows
AggregateRow ==
    /\ pc = "aggregate"
    /\ Len(rows) < (IF prog = "ldm6" THEN MaxRows ELSE MaxAggRows)
    /\ \E row \in (IF prog = "ldm6" THEN RowPool ELSE AggRowPool) :
        LET i == Len(rows)
            group1 == Append(group, i)
            sum1 == sum_size + int(Col(row, 0))
        IN  /\ rows' = Append(rows, row)
            /\ IF CloseGroup(sum1, aggregate_size)
               THEN /\ groups' = Append(groups, group1)
                    /\ sizes' = Append(sizes, sum1)
                    /\ group' = <<>>
                    /\ sum_size' = 0
               ELSE /\ group' = group1
                    /\ sum_size' = sum1
                    /\ UNCHANGED <<groups, sizes>>
    /\ UNCHANGED <<prog, pc, err, aggregate_size, ExtractVars, k, out>>

\* aggregate(): the end of the file, the last partial group, the return
AggregateReturn ==
    /\ pc = "aggregate"
    /\ IF KeepPartial(group, sum_size)
       THEN /\ groups' = Append(groups, group)
            /\ sizes' = Append(sizes, sum_size)
       ELSE UNCHANGED <<groups, sizes>>
    /\ pc' = IF prog = "ldm6" THEN "extract" ELSE "done"
    /\ UNCHANGED <<prog, err, aggregate_size, rows, group, sum_size,
                   ExtractVars, k, out>>

\* extractLog(): one iteration of the loop over the lines of the log
ExtractLine ==
    /\ pc = "extract"
    /\ Len(log) < MaxLines
    /\ \E line \in (IF prog = "cbr" THEN LinePool ELSE LinePool6) :
        LET r == Taken(prog, Text(line)) IN
        /\ log' = Append(log, line)
        /\ recs' = Append(recs, r)
        /\ IF r.tag = "raise"
           THEN /\ pc' = "error"
                /\ err' = r.exc
                /\ UNCHANGED <<complete_set, complete_dict>>
           ELSE /\ UNCHANGED <<pc, err>>
                /\ IF r.prodindex >= 0
                   THEN /\ complete_set' = complete_set \cup {r.prodindex}
                        /\ complete_dict' =
                             PutIfAbsent(complete_dict, r.prodindex,
                                         <<r.size, r.rxtime>>)
                   ELSE UNCHANGED <<complete_set, complete_dict>>
    /\ UNCHANGED <<prog, AggVars, rx_set, k, out>>

\* extractLog(): the end of the file and the return; cbr.py sorts the set
ExtractReturn ==
    /\ pc = "extract"
    /\ rx_set' = IF prog = "cbr" THEN sorted(complete_set) ELSE rx_set
    /\ pc' = "calc"
    /\ UNCHANGED <<prog, err, AggVars, log, recs, complete_set, complete_dict,
                   k, out>>

\* cbr.py main: one row of the output
WriteCBR ==
    /\ prog = "cbr"
    /\ pc = "calc"
    /\ k < Len(rx_set)
    /\ LET i == rx_set[k + 1]
           r == calcCBR(i, complete_dict)
       IN  IF r.tag = "raise"
           THEN /\ pc' = "error"
                /\ err' = r.exc
                /\ UNCHANGED <<k, out>>
           ELSE /\ out' = Append(out,
                            [prodindex |-> i, cbr |-> r.cbr,
                             half_full_cbr |-> r.half_full_cbr,
                             is_half_full |->
                                IF RLess(r.cbr, r.half_full_cbr) THEN 1 ELSE 0])
                /\ k' = k + 1
                /\ UNCHANGED <<pc, err>>
    /\ UNCHANGED <<prog, AggVars, ExtractVars>>

\* ldm6_par.py main: one row of the output
WriteThroughput ==
    /\ prog = "ldm6"
    /\ pc = "calc"
    /\ k < Len(groups)
    /\ LET g == groups[k + 1]
           r == calcThroughput(Range(g), complete_set, complete_dict)
       IN  IF r.tag = "raise"
           THEN /\ pc' = "error"
                /\ err' = r.exc
                /\ UNCHANGED <<k, out>>
           ELSE /\ out' = Append(out,
                            [first |-> Min(Range(g)), last |-> Max(Range(g)),
                             size |-> sizes[k + 1],
                             rx_group_size |-> r.complete_size,
                             thru |-> r.thru])
                /\ k' = k + 1
                /\ UNCHANGED <<pc, err>>
    /\ UNCHANGED <<prog, AggVars, ExtractVars>>

\* main: the output file is closed
Close ==
    /\ pc = "calc"
    /\ k = (IF prog = "cbr" THEN Len(rx_set) ELSE Len(groups))
    /\ pc' = "done"
    /\ UNCHANGED <<prog, err, AggVars, ExtractVars, k, out>>

Next ==
    \/ AggregateRow
    \/ AggregateReturn
    \/ ExtractLine
    \/ ExtractReturn
    \/ WriteCBR
    \/ WriteThroughput
    \/ Close

Spec == Init /\ [][Next]_vars

NextAggregate == AggregateRow \/ AggregateReturn

SpecAggregate == InitAggregate /\ [][NextAggregate]_vars

-----------------------------------------------------------------------------
(* Properties *)

\* line i is a qualifying line for identifier id
Qualifies(i, id) ==
    /\ recs[i].tag = "ok"
    /\ recs[i].prodindex = id
    /\ id >= 0

FirstFor(i, id) ==
    Qualifies(i, id) /\ \A j \in 1..(i - 1) : ~Qualifies(j, id)

\* C1: in both extractors the table holds, for every identifier with a
\* qualifying line, exactly the (size, elapsed) of the earliest such line,
\* and holds nothing else.
C1_FirstMatchWins ==
    /\ \A i \in 1..Len(log) :
          recs[i].tag = "ok" /\ recs[i].prodindex >= 0 =>
             /\ recs[i].prodindex \in DOMAIN complete_dict
             /\ FirstFor(i, recs[i].prodindex) =>
                   complete_dict[recs[i].prodindex]
                      = <<recs[i].size, recs[i].rxtime>>
    /\ \A id \in DOMAIN complete_dict :
          \E i \in 1..Len(log) : Qualifies(i, id)

\* three lines for one identifier, of different sizes, were extracted
C1_Witness ==
    /\ pc = "done"
    /\ Len(log) = 3
    /\ \E id \in DOMAIN complete_dict :
          /\ \A i \in 1..3 : Qualifies(i, id)
          /\ recs[1].size # recs[2].size
          /\ recs[1].size # recs[3].size
          /\ complete_dict[id][1] = recs[1].size

\* size of csv row i, counted from 0
RowSize(i) == int(Col(rows[i + 1], 0))

RECURSIVE SeqSum(_)
SeqSum(g) ==
    IF g = <<>> THEN 0 ELSE RowSize(Head(g)) + SeqSum(Tail(g))

RECURSIVE Flatten(_)
Flatten(gs) == IF gs = <<>> THEN <<>> ELSE Head(gs) \o Flatten(Tail(gs))

Indices(n) == [i \in 1..n |-> i - 1]

NonNegativeRows == \A i \in 0..(Len(rows) - 1) : RowSize(i) >= 0

\* C2 as claimed: the groups returned for rows of size >= 0 hold every row
\* index 0 .. n-1 exactly once, in order.
C2_Partition ==
    pc = "done" /\ NonNegativeRows => Flatten(groups) = Indices(Len(rows))

\* C2 amended: the groups hold the row indices 0 .. m-1 exactly once, in
\* order; the rows m .. n-1 that are dropped all have size 0 and follow the
\* last group that reached the threshold.
C2_PartitionButZeroTail ==
    pc = "done" /\ NonNegativeRows =>
        LET m == Len(Flatten(groups))
            n == Len(rows)
        IN  /\ Flatten(groups) = Indices(m)
            /\ m <= n
            /\ \A i \in m..(n - 1) : RowSize(i) = 0
            /\ m < n /\ groups # <<>> => sizes[Len(sizes)] >= aggregate_size

\* a trailing row of size 0 was dropped after a group closed
C2_Witness ==
    /\ pc = "done"
    /\ NonNegativeRows
    /\ groups # <<>>
    /\ Len(Flatten(groups)) < Len(rows)

\* C3: every returned group records the sum of its own rows, and every
\* group but the last reaches the threshold.
C3_GroupSizes ==
    /\ Len(sizes) = Len(groups)
    /\ \A j \in 1..Len(groups) :
          /\ sizes[j] = SeqSum(groups[j])
          /\ j < Len(groups) => sizes[j] >= aggregate_size

\* two groups were returned, the last one under the threshold
C3_Witness ==
    /\ pc = "done"
    /\ Len(groups) >= 2
    /\ sizes[Len(sizes)] < aggregate_size
    /\ Len(groups[1]) >= 2

\* the products of output row j that the receiver completed
MatchedOf(j) == {i \in Range(groups[j]) : i \in complete_set}
SizeOf(j) == SumOver(MatchedOf(j), complete_dict, 1)
TimeOf(j) == SumOver(MatchedOf(j), complete_dict, 2)

\* C4 as claimed: a group whose matched elapsed times sum to 0 is written
\* with throughput -1 and complete size 0.
C4_Degenerate ==
    prog = "ldm6" =>
        \A j \in 1..Len(out) :
            TimeOf(j) = 0 =>
                out[j].thru = Rat(-1, 1) /\ out[j].rx_group_size = 0

\* C4 amended: such a group is written with throughput -1; its complete
\* size is 0 when no product matched and the sum of the matched sizes
\* otherwise.
C4_DegenerateThru ==
    prog = "ldm6" =>
        \A j \in 1..Len(out) :
            TimeOf(j) = 0 =>
                /\ out[j].thru = Rat(-1, 1)
                /\ MatchedOf(j) = {} => out[j].rx_group_size = 0
                /\ MatchedOf(j) # {} => out[j].rx_group_size = SizeOf(j)

\* a group with matched products of positive size and total time 0, and a
\* group without matched products, were written
C4_Witness ==
    /\ prog = "ldm6"
    /\ \E j \in 1..Len(out) :
          MatchedOf(j) # {} /\ TimeOf(j) = 0 /\ out[j].rx_group_size > 0
    /\ \E j \in 1..Len(out) : MatchedOf(j) = {}

\* C5: the complete size of a written group is the sum of the table's sizes
\* over the identifiers that are rows of the group and known; the
\* throughput is 8 times that size over the sum of their elapsed times.
C5_MatchedOnly ==
    prog = "ldm6" =>
        \A j \in 1..Len(out) :
            /\ out[j].rx_group_size = SizeOf(j)
            /\ TimeOf(j) # 0 =>
                  RMul(out[j].thru, total_seconds(TimeOf(j)))
                     = Rat(8 * SizeOf(j), 1)

\* a group with a matched row and an unmatched row was written while the
\* receiver knows an identifier outside the group
C5_Witness ==
    /\ prog = "ldm6"
    /\ \E j \in 1..Len(out) :
          /\ MatchedOf(j) # {}
          /\ MatchedOf(j) # Range(groups[j])
          /\ TimeOf(j) # 0
          /\ \E id \in complete_set : id \notin Range(groups[j])

IsAscending(s) == \A i \in 1..(Len(s) - 1) : s[i] < s[i + 1]

\* C6: after any prefix of the log the known set is the key set of the
\* table; cbr.py main walks it in ascending order and never asks calcCBR
\* for an identifier the table lacks.
C6_KnownSetIsKeySet ==
    /\ complete_set = DOMAIN complete_dict
    /\ err # "KeyError"
    /\ prog = "cbr" /\ pc \in {"calc", "done"} =>
          /\ Range(rx_set) = DOMAIN complete_dict
          /\ IsAscending(rx_set)
          /\ \A j \in 1..Len(out) : out[j].prodindex = rx_set[j]

\* cbr.py wrote the rows of three identifiers
C6_Witness ==
    /\ prog = "cbr"
    /\ pc = "done"
    /\ Len(out) = 3
    /\ Cardinality(complete_set) = 3

\* a parser returned a record, not the no-match triple
Hit(r) == r.tag = "ok" /\ r # NoMatch

\* C7 as claimed: a line that one of parseMLDM and parseBackstop matches
\* is a no-match for the other.
C7_Exclusive ==
    prog = "cbr" =>
        \A i \in 1..Len(log) :
            /\ Hit(parseMLDM(Text(log[i]))) =>
                  parseBackstop(Text(log[i])) = NoMatch
            /\ Hit(parseBackstop(Text(log[i]))) =>
                  parseMLDM(Text(log[i])) = NoMatch

\* the line fits no pattern the extractor of program p recognizes
NoPattern(p, line) ==
    IF p = "cbr"
    THEN ~re_search(mldm, Received, line) /\ ~re_search(down7, Inserted, line)
    ELSE ~(Len(line) > 3 /\ isdigit(Col(line, 3)))

\* C8 as claimed: reading a line that fits no pattern raises nothing and
\* leaves the known set and the table as they were.
C8_SkipSilently ==
    [][ (pc = "extract" /\ Len(log') = Len(log) + 1
            /\ NoPattern(prog, Text(log'[Len(log')])))
        => (pc' = "extract" /\ err' = "none"
            /\ complete_set' = complete_set
            /\ complete_dict' = complete_dict) ]_vars

\* line i carries the backstop markers alone and is the first line of its
\* identifier
BackstopFirst(i) ==
    /\ re_search(down7, Inserted, Text(log[i]))
    /\ ~re_search(mldm, Received, Text(log[i]))
    /\ recs[i].tag = "ok"
    /\ FirstFor(i, recs[i].prodindex)

\* C9 as claimed: the entry of a backstop line has the identifier of the
\* last column, the size of column 5 and the elapsed time from column 0
\* to the insertion time in column 7.
C9_BackstopColumn7 ==
    prog = "cbr" /\ err = "none" =>
            \A i \in 1..Len(log) :
            BackstopFirst(i) =>
                LET l == Text(log[i])
                    id == int(Last(l))
                IN  /\ id \in DOMAIN complete_dict
                    /\ complete_dict[id][1] = int(Col(l, 5))
                    /\ Len(l) > 7
                    /\ CanStrptime(Col(l, 7))
                    /\ complete_dict[id][2] =
                          Elapsed(ArrivalUTC(Col(l, 0)), strptime(Col(l, 7)))

\* C9 amended: the insertion time is read from column 6.
C9_BackstopColumn6 ==
    prog = "cbr" /\ err = "none" =>
            \A i \in 1..Len(log) :
            BackstopFirst(i) =>
                LET l == Text(log[i])
                    id == int(Last(l))
                IN  /\ id \in DOMAIN complete_dict
                    /\ complete_dict[id][1] = int(Col(l, 5))
                    /\ complete_dict[id][2] =
                          Elapsed(ArrivalUTC(Col(l, 0)), strptime(Col(l, 6)))

\* a backstop line whose columns 6 and 7 both hold a time was extracted,
\* and one from another zone
C9_Witness ==
    /\ prog = "cbr"
    /\ pc = "done"
    /\ \E i \in 1..Len(log) :
          /\ BackstopFirst(i)
          /\ Len(Text(log[i])) > 7
          /\ CanStrptime(Col(Text(log[i]), 7))
          /\ strptime(Col(Text(log[i]), 7)) # strptime(Col(Text(log[i]), 6))
    /\ \E i \in 1..Len(log) :
          BackstopFirst(i) /\ recs[i].rxtime # 0

\* C10: a written product whose elapsed time is 0 has the pair (-1, -1);
\* one with a non-zero elapsed time and a size >= 0 never has it.
C10_DegenerateCBR ==
    prog = "cbr" =>
        \A j \in 1..Len(out) :
            LET e == complete_dict[out[j].prodindex]
                pair == <<out[j].cbr, out[j].half_full_cbr>>
            IN  /\ e[2] = 0 => pair = <<Rat(-1, 1), Rat(-1, 1)>>
                /\ e[2] # 0 /\ e[1] >= 0 => pair # <<Rat(-1, 1), Rat(-1, 1)>>

\* a product with elapsed time 0 was written, and one whose cbr is -1
\* although its elapsed time is not 0
C10_Witness ==
    /\ prog = "cbr"
    /\ \E j \in 1..Len(out) : complete_dict[out[j].prodindex][2] = 0
    /\ \E j \in 1..Len(out) :
          /\ complete_dict[out[j].prodindex][2] # 0
          /\ complete_dict[out[j].prodindex][1] >= 0
          /\ out[j].cbr = Rat(-1, 1)

====
